---------------------------- MODULE Spec2Model ----------------------------
(***************************************************************************)
(* Model of app.py: a single-operator retail-chain tool.  Four CSV         *)
(* containers (users, branches, products, sales), the record store         *)
(* (save_data / CSVLoader.load_data), login, the two mutating commands     *)
(* and the five reporting functions, driven by main()'s menu loop.         *)
(*                                                                         *)
(* A container is [exists, rows]: rows is the sequence of CSV rows the     *)
(* file holds, header row included, each row a sequence of strings.        *)
(* csv.writer / csv.reader are taken at row granularity: every row of      *)
(* newline-free string fields written is read back as the same row.        *)
(*                                                                         *)
(* Two specifications:                                                     *)
(*   Spec      the program: main() start-up, login loop, menu loop.        *)
(*   SpecStore the record store and the reporting functions called         *)
(*             directly, with any header argument and any row list, on     *)
(*             containers that start absent.                               *)
(***************************************************************************)
EXTENDS Integers, Sequences, FiniteSets, TLC

VARIABLES
    files,      \* [file name -> [exists, rows]] durable storage
    clock,      \* [day, tod] the system clock read by datetime.now()/today()
    pc,         \* position of main(): start / login / menu / exited / crashed / api
    out,        \* what the last step did and surfaced to the operator
    hdrWrites,  \* history: per file, how often save_data wrote a header row
    appended,   \* history: per file, the row lists handed to save_data, concatenated
    nAdds       \* history: per file, executions of its add command

vars == <<files, clock, pc, out, hdrWrites, appended, nAdds>>

----------------------------------------------------------------------------
(* Bounds *)

\* data rows a container may hold before the model stops adding to it
MaxRows == 3
\* last day the clock reaches, counted from Monday 2024-01-01 = day 0;
\* a session starts on Sunday 2024-01-07 = day 6
MaxDay == 7
\* longest row list handed to save_data by a direct caller
MaxBatch == 2

----------------------------------------------------------------------------
(* File names and headers *)

USER_FILE == "users.csv"
BRANCHES_FILE == "branches.csv"
PRODUCTS_FILE == "products.csv"
SALES_FILE == "sales.csv"

FileNames == {USER_FILE, BRANCHES_FILE, PRODUCTS_FILE, SALES_FILE}

headers_users == <<"Username", "Password">>
headers_branches == <<"Branch ID", "Branch Name", "Location">>
headers_products == <<"Product ID", "Product Name">>
headers_sales == <<"Branch ID", "Product ID", "Amount Sold", "Date">>

HeaderOf(f) ==
    CASE f = USER_FILE -> headers_users
      [] f = BRANCHES_FILE -> headers_branches
      [] f = PRODUCTS_FILE -> headers_products
      [] f = SALES_FILE -> headers_sales

Absent == [exists |-> FALSE, rows |-> <<>>]

\* headers argument of save_data: None, or a list (possibly empty)
NoHeaders == [none |-> TRUE, row |-> <<>>]
Headers(h) == [none |-> FALSE, row |-> h]

----------------------------------------------------------------------------
(* Sequence helpers *)

RECURSIVE SumSeq(_)
SumSeq(s) == IF s = <<>> THEN 0 ELSE Head(s) + SumSeq(Tail(s))

RECURSIVE Insert(_, _)
Insert(x, s) ==
    IF s = <<>> THEN <<x>>
    ELSE IF x <= Head(s) THEN <<x>> \o s
    ELSE <<Head(s)>> \o Insert(x, Tail(s))

RECURSIVE Sorted(_)
Sorted(s) == IF s = <<>> THEN <<>> ELSE Insert(Head(s), Sorted(Tail(s)))

MaxOf(s) == CHOOSE x \in {s[i] : i \in DOMAIN s} : \A j \in DOMAIN s : s[j] <= x
MinOf(s) == CHOOSE x \in {s[i] : i \in DOMAIN s} : \A j \in DOMAIN s : x <= s[j]

\* np.mean: sum / count, kept as an exact fraction
Mean(s) == [num |-> SumSeq(s), den |-> Len(s)]

\* np.median: middle of the sorted values, mean of the two central ones
\* when the count is even
Median(s) ==
    LET t == Sorted(s)
        n == Len(s)
    IN  IF n % 2 = 1 THEN [num |-> t[(n + 1) \div 2], den |-> 1]
        ELSE [num |-> t[n \div 2] + t[n \div 2 + 1], den |-> 2]

\* the first entry other than "none" of a sequence of fault names, one per
\* row in processing order ("none" when there is no such entry)
FirstFault(faults) ==
    IF \A i \in DOMAIN faults : faults[i] = "none" THEN "none"
    ELSE LET k == CHOOSE i \in DOMAIN faults :
                    /\ faults[i] # "none"
                    /\ \A j \in 1..(i - 1) : faults[j] = "none"
         IN  faults[k]

\* the distinct values of s in order of first occurrence (dict key order)
RECURSIVE FirstOccurrences(_)
FirstOccurrences(s) ==
    IF s = <<>> THEN <<>>
    ELSE LET front == FirstOccurrences(SubSeq(s, 1, Len(s) - 1))
             x == s[Len(s)]
         IN  IF \E i \in DOMAIN front : front[i] = x THEN front
             ELSE Append(front, x)

----------------------------------------------------------------------------
(* Conversions *)

\* int(s) for the amount strings of the model: surrounding blanks and a
\* sign are accepted; anything else raises ValueError
IntValue ==
    ("10" :> 10) @@ ("7" :> 7) @@ (" 5 " :> 5) @@ ("-3" :> -3)
ParsesAsInt(s) == s \in DOMAIN IntValue

\* the calendar days of the model as '%Y-%m-%d' text; day 0 is a Monday
DateText ==
    << "2024-01-01", "2024-01-02", "2024-01-03", "2024-01-04", "2024-01-05",
       "2024-01-06", "2024-01-07", "2024-01-08", "2024-01-09", "2024-01-10",
       "2024-01-11", "2024-01-12", "2024-01-13", "2024-01-14", "2024-01-15" >>

\* datetime.now().strftime('%Y-%m-%d'): the calendar day, time of day dropped
strftime(dt) == DateText[dt.day + 1]

\* datetime.strptime(s, '%Y-%m-%d'): midnight of that day, ValueError otherwise
ParsesAsDate(s) == \E i \in DOMAIN DateText : DateText[i] = s
strptime(s) ==
    [day |-> (CHOOSE i \in DOMAIN DateText : DateText[i] = s) - 1, tod |-> 0]

\* datetime comparison and arithmetic
DtLeq(a, b) == a.day < b.day \/ (a.day = b.day /\ a.tod <= b.tod)
MinusDays(dt, n) == [day |-> dt.day - n, tod |-> dt.tod]
PlusDays(dt, n) == [day |-> dt.day + n, tod |-> dt.tod]
\* datetime.weekday(): Monday = 0 .. Sunday = 6
weekday(dt) == dt.day % 7

\* times of day the clock shows: 0 is 00:00:00.000000 exactly, 1 any later time
TimesOfDay == {0, 1}

----------------------------------------------------------------------------
(* Record store and loader factory *)

\* DataLoaderFactory.create_loader: the loading strategy for a file name
create_loader(file_name) ==
    IF file_name \in FileNames THEN "CSVLoader" ELSE "ValueError"

Loaded(data) == [fault |-> "none", data |-> data]
LoadFault(e) == [fault |-> e, data |-> <<>>]

\* CSVLoader.load_data: [] for a missing file; otherwise the first row is
\* skipped with next(reader) (StopIteration on a file with no row) and
\* every further row is returned
CSVLoader_load_data(file) ==
    IF ~file.exists THEN Loaded(<<>>)
    ELSE IF file.rows = <<>> THEN LoadFault("StopIteration")
    ELSE Loaded(Tail(file.rows))

\* load_data(file_name) on storage fs
load_data(fs, file_name) ==
    IF create_loader(file_name) = "CSVLoader"
    THEN CSVLoader_load_data(fs[file_name])
    ELSE LoadFault("ValueError")

\* a save_data that forgets file_exists: a header on every call
HeaderOnEveryCall(file, headers) == ~headers.none /\ headers.row # <<>>

\* save_data line 135: the header row is written when the file did not
\* exist before the call and headers is a non-empty list
WritesHeader(file, headers) ==
    ~file.exists /\ ~headers.none /\ headers.row # <<>>

\* writer.writerows(data): rows are written in order up to the first
\* element that is not a row (bad = its position, 0 when every element is
\* a row); csv.Error is raised there and the rows before it stay written
WrittenRows(data, bad) ==
    IF bad = 0 THEN data ELSE SubSeq(data, 1, bad - 1)

\* save_data: open in append mode (creating the file), header if new,
\* then the rows
save_data(file, data, headers, bad) ==
    [ file |-> [ exists |-> TRUE,
                 rows |-> file.rows
                          \o (IF WritesHeader(file, headers)
                              THEN <<headers.row>> ELSE <<>>)
                          \o WrittenRows(data, bad) ],
      fault |-> IF bad = 0 THEN "none" ELSE "csv.Error" ]

----------------------------------------------------------------------------
(* login *)

\* the first row, in file order, that ends the scan: a row too short to
\* index raises IndexError, a row equal to the entered pair returns True
LoginRowEvent(row, username, password) ==
    IF Len(row) < 1 THEN "IndexError"
    ELSE IF row[1] # username THEN "none"
    ELSE IF Len(row) < 2 THEN "IndexError"
    ELSE IF row[2] = password THEN "True"
    ELSE "none"

\* login(): every row of the credential file, its first row included, is
\* compared with the entered pair
login(file, username, password) ==
    IF ~file.exists THEN "FileNotFoundError"
    ELSE LET ev(row) == LoginRowEvent(row, username, password)
             r == FirstFault([i \in DOMAIN file.rows |-> ev(file.rows[i])])
         IN  IF r = "none" THEN "False" ELSE r

----------------------------------------------------------------------------
(* Reporting functions.  Each yields what the function surfaces:           *)
(*   status "ok"     it ran to its end, value is what it computed          *)
(*   status "nodata" it printed its no-data message and returned           *)
(*   status "fault"  it raised the exception named by fault                *)
(* Rendering (the plt calls) is not modelled.  Row fields are 1-based:     *)
(* sale[0] is r[1], sale[1] is r[2], sale[2] is r[3], sale[3] is r[4].     *)

Done(v) == [status |-> "ok", fault |-> "none", value |-> v]
NoData == [status |-> "nodata", fault |-> "none", value |-> <<>>]
Raised(e) == [status |-> "fault", fault |-> e, value |-> <<>>]

\* [int(sale[2]) for sale in rows]
Amounts(rows) == [i \in DOMAIN rows |-> IntValue[rows[i][3]]]

\* monthly_sales_analysis(branch_id)
monthly_sales_analysis(fs, branch_id) ==
    LET ld == load_data(fs, SALES_FILE)
        rowFault(r) ==
            IF Len(r) < 1 THEN "IndexError"
            ELSE IF r[1] # branch_id THEN "none"
            ELSE IF Len(r) < 3 THEN "IndexError"
            ELSE IF ~ParsesAsInt(r[3]) THEN "ValueError"
            ELSE "none"
        ff == FirstFault([i \in DOMAIN ld.data |-> rowFault(ld.data[i])])
        match(r) == r[1] = branch_id
        branch_sales == Amounts(SelectSeq(ld.data, match))
    IN  IF ld.fault # "none" THEN Raised(ld.fault)
        ELSE IF ff # "none" THEN Raised(ff)
        ELSE IF branch_sales = <<>> THEN NoData
        ELSE Done([branch_sales |-> branch_sales])

\* np.mean / np.max / np.min / np.median of the filtered amounts
PriceStats(product_sales) ==
    [ average_price |-> Mean(product_sales),
      max_price |-> MaxOf(product_sales),
      min_price |-> MinOf(product_sales),
      median_price |-> Median(product_sales),
      product_sales |-> product_sales ]

\* the fault, if any, of building product_sales in price_analysis
PriceRowFault(r, product_id) ==
    IF Len(r) < 2 THEN "IndexError"
    ELSE IF r[2] # product_id THEN "none"
    ELSE IF Len(r) < 3 THEN "IndexError"
    ELSE IF ~ParsesAsInt(r[3]) THEN "ValueError"
    ELSE "none"

\* price_analysis without its empty check: np.max of an empty list raises
price_analysis_unguarded(fs, product_id) ==
    LET ld == load_data(fs, SALES_FILE)
        rowFault(r) == PriceRowFault(r, product_id)
        ff == FirstFault([i \in DOMAIN ld.data |-> rowFault(ld.data[i])])
        match(r) == r[2] = product_id
        product_sales == Amounts(SelectSeq(ld.data, match))
    IN  IF ld.fault # "none" THEN Raised(ld.fault)
        ELSE IF ff # "none" THEN Raised(ff)
        ELSE IF product_sales = <<>> THEN Raised("ValueError")
        ELSE Done(PriceStats(product_sales))

\* price_analysis(product_id)
price_analysis(fs, product_id) ==
    LET ld == load_data(fs, SALES_FILE)
        rowFault(r) == PriceRowFault(r, product_id)
        ff == FirstFault([i \in DOMAIN ld.data |-> rowFault(ld.data[i])])
        match(r) == r[2] = product_id
        product_sales == Amounts(SelectSeq(ld.data, match))
    IN  IF ld.fault # "none" THEN Raised(ld.fault)
        ELSE IF ff # "none" THEN Raised(ff)
        ELSE IF product_sales = <<>> THEN NoData
        ELSE Done(PriceStats(product_sales))

\* start_of_week <= strptime(sale[3]) <= end_of_week, with
\* start_of_week = today - timedelta(days=today.weekday()) and
\* end_of_week = start_of_week + timedelta(days=6); today carries the
\* time of day of the run
InWeekWindow(date_text, today) ==
    LET start_of_week == MinusDays(today, weekday(today))
        end_of_week == PlusDays(start_of_week, 6)
        d == strptime(date_text)
    IN  DtLeq(start_of_week, d) /\ DtLeq(d, end_of_week)

\* weekly_sales_analysis() run at instant today
weekly_sales_analysis(fs, today) ==
    LET ld == load_data(fs, SALES_FILE)
        rowFault(r) ==
            IF Len(r) < 4 THEN "IndexError"
            ELSE IF ~ParsesAsDate(r[4]) THEN "ValueError"
            ELSE IF ~InWeekWindow(r[4], today) THEN "none"
            ELSE IF ~ParsesAsInt(r[3]) THEN "ValueError"
            ELSE "none"
        ff == FirstFault([i \in DOMAIN ld.data |-> rowFault(ld.data[i])])
        match(r) == InWeekWindow(r[4], today)
        weekly_sales == Amounts(SelectSeq(ld.data, match))
    IN  IF ld.fault # "none" THEN Raised(ld.fault)
        ELSE IF ff # "none" THEN Raised(ff)
        ELSE Done([ weekly_sales |-> weekly_sales,
                    total_sales |-> SumSeq(weekly_sales),
                    average_sales |-> IF weekly_sales # <<>>
                                      THEN Mean(weekly_sales)
                                      ELSE [num |-> 0, den |-> 1] ])

\* total_sales_amount_analysis()
total_sales_amount_analysis(fs) ==
    LET ld == load_data(fs, SALES_FILE)
        rowFault(r) ==
            IF Len(r) < 3 THEN "IndexError"
            ELSE IF ~ParsesAsInt(r[3]) THEN "ValueError"
            ELSE "none"
        ff == FirstFault([i \in DOMAIN ld.data |-> rowFault(ld.data[i])])
    IN  IF ld.fault # "none" THEN Raised(ld.fault)
        ELSE IF ff # "none" THEN Raised(ff)
        ELSE Done([total_sales |-> SumSeq(Amounts(ld.data))])

\* all_branches_monthly_sales_analysis(): a dict keyed by the branch ids
\* of the Branch rows, each sale added under its branch id (KeyError for
\* an id that is no key), then the zipped items unpacked into two names
\* (ValueError when the dict is empty)
all_branches_monthly_sales_analysis(fs) ==
    LET sl == load_data(fs, SALES_FILE)
        bl == load_data(fs, BRANCHES_FILE)
        branchFault(b) == IF Len(b) < 1 THEN "IndexError" ELSE "none"
        bf == FirstFault([i \in DOMAIN bl.data |-> branchFault(bl.data[i])])
        ids == [i \in DOMAIN bl.data |-> bl.data[i][1]]
        keys == FirstOccurrences(ids)
        isKey(k) == \E i \in DOMAIN keys : keys[i] = k
        saleFault(r) ==
            IF Len(r) < 1 THEN "IndexError"
            ELSE IF ~isKey(r[1]) THEN "KeyError"
            ELSE IF Len(r) < 3 THEN "IndexError"
            ELSE IF ~ParsesAsInt(r[3]) THEN "ValueError"
            ELSE "none"
        sf == FirstFault([i \in DOMAIN sl.data |-> saleFault(sl.data[i])])
        totalOf(k) ==
            LET of(r) == r[1] = k
            IN  SumSeq(Amounts(SelectSeq(sl.data, of)))
    IN  IF sl.fault # "none" THEN Raised(sl.fault)
        ELSE IF bl.fault # "none" THEN Raised(bl.fault)
        ELSE IF bf # "none" THEN Raised(bf)
        ELSE IF sf # "none" THEN Raised(sf)
        ELSE IF keys = <<>> THEN Raised("ValueError")
        ELSE Done([ branch_ids |-> keys,
                    sales_amounts |-> [i \in DOMAIN keys |-> totalOf(keys[i])] ])

----------------------------------------------------------------------------
(* Operator input *)

\* (username, password) pairs typed at the login prompt
LoginInputs ==
    {<<"admin", "secret">>, <<"admin", "Password">>, <<"Username", "Password">>}
BranchIdInputs == {"B1", "B2"}
BranchNameInputs == {"Colombo"}
LocationInputs == {"Western"}
\* product ids typed into a sale, and product ids queried
SaleProductInputs == {"P1", "P2"}
ProductIdInputs == {"P1", "P2"}
AmountInputs == {"10", "7", "x"}
\* menu choices that are no key of the command map
OtherChoices == {"6"}

\* a credential file an administrator prepared before the session
PreparedUsers ==
    [exists |-> TRUE, rows |-> <<headers_users, <<"admin", "secret">>>>]

\* row lists a direct caller of save_data passes
BranchRowInputs == {<<"B1", "Colombo", "Western">>, <<>>}
SaleRowInputs ==
    { <<"B1", "P1", "10", "2024-01-01">>,
      <<"B2", "P2", "x", "2024-01-08">> }
StoreFiles == {BRANCHES_FILE, SALES_FILE}
RowInputs(f) == IF f = BRANCHES_FILE THEN BranchRowInputs ELSE SaleRowInputs
RowLists(f) ==
    UNION { [1..n -> RowInputs(f)] : n \in 0..MaxBatch }
HeaderInputs(f) == {NoHeaders, Headers(<<>>), Headers(HeaderOf(f))}

----------------------------------------------------------------------------
(* State *)

Idle == [cmd |-> "none", arg |-> <<>>, status |-> "none",
         fault |-> "none", value |-> <<>>]
Out(cmd, arg, res) ==
    [cmd |-> cmd, arg |-> arg, status |-> res.status,
     fault |-> res.fault, value |-> res.value]

ReportCmds ==
    { "MonthlySalesAnalysis", "PriceAnalysis", "WeeklySalesAnalysis",
      "TotalSalesAmountAnalysis", "AllBranchesMonthlySalesAnalysis" }

\* the data rows a container holds (what follows its first row)
DataRows(file) == IF file.rows = <<>> THEN <<>> ELSE Tail(file.rows)

Init ==
    /\ files = [f \in FileNames |->
                    IF f = USER_FILE THEN PreparedUsers ELSE Absent]
    /\ clock \in {[day |-> 6, tod |-> t] : t \in TimesOfDay}
    /\ pc = "start"
    /\ out = Idle
    /\ hdrWrites = [f \in FileNames |-> IF files[f].exists THEN 1 ELSE 0]
    /\ appended = [f \in FileNames |-> DataRows(files[f])]
    /\ nAdds = [f \in FileNames |-> 0]

InitStore ==
    /\ files = [f \in FileNames |-> Absent]
    /\ clock \in {[day |-> 2, tod |-> t] : t \in TimesOfDay}
    /\ pc = "api"
    /\ out = Idle
    /\ hdrWrites = [f \in FileNames |-> 0]
    /\ appended = [f \in FileNames |-> <<>>]
    /\ nAdds = [f \in FileNames |-> 0]

----------------------------------------------------------------------------
(* Steps *)

\* a loader that opens in append mode without the existence check: a
\* missing file is created
LoadOpensForAppend(file) == [exists |-> TRUE, rows |-> file.rows]

\* what loading a file (os.path.exists, then open in mode 'r') leaves of it
LoadEffect(file) == file

\* storage after save_data(f, data, headers) on storage fs, with the
\* history of header writes and written rows
Store(fs, f, data, headers, bad) ==
    LET sv == save_data(fs[f], data, headers, bad)
    IN  /\ files' = [fs EXCEPT ![f] = sv.file]
        /\ hdrWrites' = [hdrWrites EXCEPT ![f] =
                            @ + IF WritesHeader(fs[f], headers) THEN 1 ELSE 0]
        /\ appended' = [appended EXCEPT ![f] = @ \o WrittenRows(data, bad)]

\* an uncaught exception ends the process; a direct caller gets it raised
AfterFault == IF pc = "api" THEN "api" ELSE "crashed"

\* main(), lines 255-270: each missing file is created with its header
Startup ==
    /\ pc = "start"
    /\ files' = [f \in FileNames |->
                    IF ~files[f].exists
                    THEN save_data(files[f], <<>>, Headers(HeaderOf(f)), 0).file
                    ELSE files[f]]
    /\ hdrWrites' = [f \in FileNames |->
                        hdrWrites[f] +
                        IF ~files[f].exists
                           /\ WritesHeader(files[f], Headers(HeaderOf(f)))
                        THEN 1 ELSE 0]
    /\ pc' = "login"
    /\ out' = Idle
    /\ UNCHANGED <<clock, appended, nAdds>>

\* one pass of the login loop
Login(username, password) ==
    /\ pc = "login"
    /\ LET r == login(files[USER_FILE], username, password)
       IN  /\ pc' = CASE r = "True" -> "menu"
                      [] r = "False" -> "login"
                      [] OTHER -> "crashed"
           /\ out' = [cmd |-> "login", arg |-> <<username, password>>,
                      status |-> CASE r = "True" -> "ok"
                                   [] r = "False" -> "denied"
                                   [] OTHER -> "fault",
                      fault |-> IF r \in {"True", "False"} THEN "none" ELSE r,
                      value |-> <<>>]
    /\ UNCHANGED <<files, clock, hdrWrites, appended, nAdds>>

\* an add command: load the container, append the new record to the
\* loaded list, hand the whole list to save_data
AddRecord(cmd, f, new_record) ==
    /\ pc = "menu"
    /\ LET fs == [files EXCEPT ![f] = LoadEffect(@)]
           ld == load_data(fs, f)
           records == Append(ld.data, new_record)
       IN  IF ld.fault # "none"
           THEN /\ files' = fs
                /\ pc' = "crashed"
                /\ out' = Out(cmd, new_record, Raised(ld.fault))
                /\ UNCHANGED <<hdrWrites, appended, nAdds>>
           ELSE /\ Len(ld.data) + Len(records) <= MaxRows
                /\ Store(fs, f, records, Headers(HeaderOf(f)), 0)
                /\ pc' = "menu"
                /\ out' = Out(cmd, new_record, Done(ld.data))
                /\ nAdds' = [nAdds EXCEPT ![f] = @ + 1]
    /\ UNCHANGED clock

\* AddBranchCommand.execute
AddBranch(branch_id, branch_name, location) ==
    AddRecord("AddBranch", BRANCHES_FILE, <<branch_id, branch_name, location>>)

\* AddSaleCommand.execute: the sale is stamped with today's date
AddSale(branch_id, product_id, amount_sold) ==
    AddRecord("AddSale", SALES_FILE,
              <<branch_id, product_id, amount_sold, strftime(clock)>>)

\* a reporting command: the files it loads, and what it surfaces
Report(cmd, arg, loads, res) ==
    /\ pc \in {"menu", "api"}
    /\ files' = [f \in FileNames |->
                    IF f \in loads THEN LoadEffect(files[f]) ELSE files[f]]
    /\ out' = Out(cmd, arg, res)
    /\ pc' = IF res.status = "fault" THEN AfterFault ELSE pc
    /\ UNCHANGED <<clock, hdrWrites, appended, nAdds>>

MonthlySalesAnalysis(branch_id) ==
    Report("MonthlySalesAnalysis", <<branch_id>>, {SALES_FILE},
           monthly_sales_analysis(files, branch_id))

PriceAnalysis(product_id) ==
    Report("PriceAnalysis", <<product_id>>, {SALES_FILE},
           price_analysis(files, product_id))

WeeklySalesAnalysis ==
    Report("WeeklySalesAnalysis", <<>>, {SALES_FILE},
           weekly_sales_analysis(files, clock))

TotalSalesAmountAnalysis ==
    Report("TotalSalesAmountAnalysis", <<>>, {SALES_FILE},
           total_sales_amount_analysis(files))

AllBranchesMonthlySalesAnalysis ==
    Report("AllBranchesMonthlySalesAnalysis", <<>>, {SALES_FILE, BRANCHES_FILE},
           all_branches_monthly_sales_analysis(files))

\* choice '9'
Logout ==
    /\ pc = "menu"
    /\ pc' = "exited"
    /\ out' = [Idle EXCEPT !.cmd = "Logout", !.status = "ok"]
    /\ UNCHANGED <<files, clock, hdrWrites, appended, nAdds>>

\* a choice that is no key of the command map: reported, menu shown again
InvalidChoice(choice) ==
    /\ pc = "menu"
    /\ choice \notin {"1", "2", "3", "4", "5", "7", "8", "9"}
    /\ out' = [Idle EXCEPT !.cmd = "InvalidChoice", !.arg = <<choice>>,
                           !.status = "ok"]
    /\ UNCHANGED <<files, clock, pc, hdrWrites, appended, nAdds>>

\* time passes
Tick ==
    /\ pc # "api"
    /\ \/ /\ clock.tod = 0
          /\ clock' = [clock EXCEPT !.tod = 1]
       \/ /\ clock.tod = 1
          /\ clock.day < MaxDay
          /\ clock' = [day |-> clock.day + 1, tod |-> 0]
    /\ out' = Idle
    /\ UNCHANGED <<files, pc, hdrWrites, appended, nAdds>>

\* the program is started again on the same storage
Restart ==
    /\ pc \in {"exited", "crashed"}
    /\ pc' = "start"
    /\ out' = Idle
    /\ UNCHANGED <<files, clock, hdrWrites, appended, nAdds>>

\* save_data called directly
StoreSave(f, data, headers, bad) ==
    /\ pc = "api"
    /\ Len(files[f].rows) + 1 + Len(data) <= MaxRows + 1
    /\ Store(files, f, data, headers, bad)
    /\ out' = [cmd |-> "save_data", arg |-> <<f>>,
               status |-> IF bad = 0 THEN "ok" ELSE "fault",
               fault |-> IF bad = 0 THEN "none" ELSE "csv.Error",
               value |-> files[f]]
    /\ UNCHANGED <<clock, pc, nAdds>>

\* load_data called directly
StoreLoad(f) ==
    /\ pc = "api"
    /\ LET ld == load_data(files, f)
       IN  out' = [cmd |-> "load_data", arg |-> <<f>>,
                   status |-> IF ld.fault = "none" THEN "ok" ELSE "fault",
                   fault |-> ld.fault, value |-> ld.data]
    /\ files' = [files EXCEPT ![f] = LoadEffect(@)]
    /\ UNCHANGED <<clock, pc, hdrWrites, appended, nAdds>>

Reports ==
    \/ \E b \in BranchIdInputs : MonthlySalesAnalysis(b)
    \/ \E p \in ProductIdInputs : PriceAnalysis(p)
    \/ WeeklySalesAnalysis
    \/ TotalSalesAmountAnalysis
    \/ AllBranchesMonthlySalesAnalysis

Next ==
    \/ Startup
    \/ \E up \in LoginInputs : Login(up[1], up[2])
    \/ \E b \in BranchIdInputs, n \in BranchNameInputs, l \in LocationInputs :
          AddBranch(b, n, l)
    \/ \E b \in BranchIdInputs, p \in SaleProductInputs, a \in AmountInputs :
          AddSale(b, p, a)
    \/ Reports
    \/ Logout
    \/ \E c \in OtherChoices : InvalidChoice(c)
    \/ Tick
    \/ Restart

NextStore ==
    \/ \E f \in StoreFiles :
          \E h \in HeaderInputs(f), data \in RowLists(f) :
             \E bad \in 0..Len(data) : StoreSave(f, data, h, bad)
    \/ \E f \in StoreFiles : StoreLoad(f)
    \/ Reports

Spec == Init /\ [][Next]_vars

SpecStore == InitStore /\ [][NextStore]_vars

----------------------------------------------------------------------------
(* Properties *)

AddFile(cmd) == IF cmd = "AddBranch" THEN BRANCHES_FILE ELSE SALES_FILE

\* C1: one execution of AddBranch / AddSale leaves the container holding
\* its previous data rows (out.value, the rows loaded before the save)
\* followed by the one new record (out.arg), and after N executions on a
\* container that held only its header, loading returns N rows.
C1_AddAppendsOneRecord ==
    /\ (out.cmd \in {"AddBranch", "AddSale"} /\ out.status = "ok")
          => DataRows(files[AddFile(out.cmd)]) = Append(out.value, out.arg)
    /\ \A f \in {BRANCHES_FILE, SALES_FILE} :
          files[f].exists => Len(load_data(files, f).data) = nAdds[f]

\* C2: after any sequence of save_data calls on an initially absent
\* container, with any header argument, load_data returns exactly the
\* concatenation of the rows written, the header not among them.
C2_LoadReturnsWhatWasSaved ==
    \A f \in StoreFiles :
        /\ load_data(files, f).fault = "none"
        /\ load_data(files, f).data = appended[f]

\* C3: every container that exists has its header as its first row, and
\* save_data wrote that header exactly once, however many appends follow
\* the creation.
C3_HeaderFirstAndWrittenOnce ==
    \A f \in FileNames :
        files[f].exists =>
            /\ files[f].rows # <<>>
            /\ Head(files[f].rows) = HeaderOf(f)
            /\ hdrWrites[f] = 1

\* C3 witness: a container created at start-up that two add commands have
\* appended to since.
C3_Witness ==
    /\ nAdds[BRANCHES_FILE] >= 2
    /\ Len(files[BRANCHES_FILE].rows) >= 3
    /\ hdrWrites[BRANCHES_FILE] = 1

\* C4: a reporting command run from the menu ends without an uncaught
\* fault, surfaces a result or the no-data signal, and control is back at
\* the menu.
C4_ReportsReturnToMenu ==
    out.cmd \in ReportCmds =>
        /\ out.status \in {"ok", "nodata"}
        /\ pc = "menu"

\* the Monday-to-Sunday calendar week of the run day holds the row's date
InCalendarWeek(r) ==
    LET monday == clock.day - (clock.day % 7)
        d == strptime(r[4]).day
    IN  monday <= d /\ d <= monday + 6

\* C5: WeeklySalesNetwork counts a Sale row if and only if its date lies
\* in the inclusive Monday-to-Sunday week containing the run day, at
\* whatever time of day it runs.
C5_WeeklyCountsCalendarWeek ==
    (out.cmd = "WeeklySalesAnalysis" /\ out.status = "ok") =>
        LET expected == SelectSeq(DataRows(files[SALES_FILE]), InCalendarWeek)
            counted == out.value.weekly_sales
        IN  /\ Len(counted) = Len(expected)
            /\ \A i \in DOMAIN expected :
                  /\ ParsesAsInt(expected[i][3])
                  /\ counted[i] = IntValue[expected[i][3]]

\* some Sale row names a branch id that no Branch row carries
SomeSaleOfUnknownBranch ==
    \E i \in DOMAIN DataRows(files[SALES_FILE]) :
        \A j \in DOMAIN DataRows(files[BRANCHES_FILE]) :
            DataRows(files[BRANCHES_FILE])[j][1] # DataRows(files[SALES_FILE])[i][1]

\* C6: MonthlySalesAllBranches fails exactly when some Sale row's
\* branch_id is absent from the Branch container; otherwise it yields a
\* result (empty containers included).
C6_FailsExactlyOnUnknownBranch ==
    out.cmd = "AllBranchesMonthlySalesAnalysis" =>
        (out.status = "fault" <=> SomeSaleOfUnknownBranch)

\* no Sale row carries value v in field k
NoSaleMatches(k, v) ==
    \A i \in DOMAIN DataRows(files[SALES_FILE]) :
        DataRows(files[SALES_FILE])[i][k] # v

\* C7: when no Sale row matches the queried id, PriceStatistics and
\* MonthlySalesByBranch report no data and compute nothing; a computed
\* result is always over a non-empty filtered sequence.
C7_NoDataBeforeStatistics ==
    /\ (out.cmd = "PriceAnalysis" /\ NoSaleMatches(2, out.arg[1]))
          => (out.status = "nodata" /\ out.value = <<>>)
    /\ (out.cmd = "MonthlySalesAnalysis" /\ NoSaleMatches(1, out.arg[1]))
          => (out.status = "nodata" /\ out.value = <<>>)
    /\ (out.cmd = "PriceAnalysis" /\ out.status = "ok")
          => out.value.product_sales # <<>>
    /\ (out.cmd = "MonthlySalesAnalysis" /\ out.status = "ok")
          => out.value.branch_sales # <<>>

\* C7 witness: PriceStatistics of a product no recorded sale carries, on a
\* Sale container that holds sales.
C7_Witness ==
    /\ out.cmd = "PriceAnalysis"
    /\ out.status = "nodata"
    /\ DataRows(files[SALES_FILE]) # <<>>
    /\ NoSaleMatches(2, out.arg[1])

\* C8: a save_data call that fails leaves the container exactly as it was
\* before the call (out.value).
C8_FailedSaveLeavesPriorState ==
    (out.cmd = "save_data" /\ out.status = "fault") =>
        files[out.arg[1]] = out.value

\* C9: a reporting command leaves every container unchanged and creates
\* none, whether it ends normally, with no data or with a fault.
C9_ReportsLeaveStorageUnchanged ==
    [][out'.cmd \in ReportCmds => files' = files]_vars

\* C9 witness: a report that ended with a fault while the Sale container
\* did not exist.
C9_Witness ==
    /\ out.cmd = "AllBranchesMonthlySalesAnalysis"
    /\ out.status = "fault"
    /\ ~files[SALES_FILE].exists
    /\ ~files[BRANCHES_FILE].exists

\* C10: login returns true only for a (username, password) pair that is a
\* data record of the credential container; its header row is no
\* credential.
C10_LoginOnlyForCredentialRecord ==
    (out.cmd = "login" /\ out.status = "ok") =>
        \E i \in DOMAIN DataRows(files[USER_FILE]) :
            DataRows(files[USER_FILE])[i] = out.arg

=============================================================================
